---- MODULE Spec2Model ----
(***************************************************************************)
(* A model of GamTools/segmentation.py: the window locator                 *)
(* (index_from_interval, parse_location_string), the co-segregation        *)
(* counters (cosegregation_frequency, fast_cosegregation_frequency) and    *)
(* the frequency-tensor assembly (get_index_combinations,                  *)
(* get_cosegregation_freqs, map_freqs, get_matrix_from_regions).           *)
(*                                                                         *)
(* Every function of the module is pure.  A behaviour is one call: Init    *)
(* draws the arguments, an action applies one function to them and stores  *)
(* what the call returned or raised in ret.  The module is Python 2: map   *)
(* returns a list and len(old_shape) / 2 is an integer division.           *)
(***************************************************************************)
EXTENDS Integers, Sequences, FiniteSets, TLC

VARIABLES
    windows,      \* segmentation_data.index: the (chrom, start, stop) row keys
    interval,     \* the interval argument of index_from_interval
    loc_string,   \* the loc_string argument, a sequence of characters
    samples,      \* the samples argument of cosegregation_frequency (K rows of N values)
    regions,      \* the *regions argument of get_cosegregation_freqs
    pc,           \* "start", or the name of the function that was called
    ret           \* what the call returned or raised

vars == <<windows, interval, loc_string, samples, regions, pc, ret>>

----------------------------------------------------------------------------
(* Bounds of the model *)

MaxK == 3           \* rows of a samples table, regions of a call
MaxSamples == 3     \* columns of the samples table given to the counters
MaxPos == 3         \* largest genomic coordinate of a window or a query
MaxWin == 3         \* rows of the segmentation matrix given to the locator
MaxLen == 2         \* rows of one region
MaxRows == 4        \* rows of all the regions of a call together
MaxCols == 1        \* sample columns of the regions

----------------------------------------------------------------------------
(* Results of a call *)

Ok(v) == [kind |-> "ok", value |-> v]

Raise(e) == [kind |-> e, value |-> <<>>]

\* An exception carrying a message argument.
RaiseWith(e, v) == [kind |-> e, value |-> v]

NoResult == [kind |-> "none", value |-> <<>>]

----------------------------------------------------------------------------
(* Arithmetic helpers *)

RECURSIVE SumSeq(_)
SumSeq(s) == IF s = <<>> THEN 0 ELSE Head(s) + SumSeq(Tail(s))

RECURSIVE ProdSeq(_)
ProdSeq(s) == IF s = <<>> THEN 1 ELSE Head(s) * ProdSeq(Tail(s))

Min(S) == CHOOSE x \in S : \A y \in S : x <= y

Max(S) == CHOOSE x \in S : \A y \in S : x >= y

\* The coordinates of a tensor of shape (2,)*k.
BitTuples(k) == [1..k -> {0, 1}]

\* An indicator row of n samples.
Rows(n) == [1..n -> {0, 1}]

----------------------------------------------------------------------------
(* cosegregation_frequency and fast_cosegregation_frequency *)

\* samples.shape[0]
NumRows(smp) == Len(smp)

\* len(samples[0]), the number of columns of the table
NumCols(smp) == Len(smp[1])

\* One element of samples.T: the values of sample i across the rows.
Column(smp, i) == [k \in 1..Len(smp) |-> smp[k][i]]

\* np.zeros(counts_shape)
Zeros(k) == [t \in BitTuples(k) |-> 0]

\* The loop "for s in samples.T: counts[tuple(s)] += 1", after i samples.
RECURSIVE CountLoop(_, _)
CountLoop(smp, i) ==
    IF i = 0 THEN Zeros(NumRows(smp))
    ELSE LET counts == CountLoop(smp, i - 1)
             s == Column(smp, i)
         IN [counts EXCEPT ![s] = @ + 1]

general_cosegregation_frequency_skip_last(smp) ==
    IF NumCols(smp) = 0 THEN Zeros(NumRows(smp))
    ELSE CountLoop(smp, NumCols(smp) - 1)

\* The general algorithm: lines 23-31 of cosegregation_frequency.
general_cosegregation_frequency(smp) == CountLoop(smp, NumCols(smp))

\* np.product(samples, axis=0).sum()
Coseg(smp) == SumSeq([i \in 1..NumCols(smp) |-> smp[1][i] * smp[2][i]])

\* np.sum(samples, axis=1)
Marginal(smp, k) == SumSeq(smp[k])

fast_cosegregation_frequency_swapped(smp) ==
    LET coseg == Coseg(smp)
        marga == Marginal(smp, 1)
        margb == Marginal(smp, 2)
        n == NumCols(smp)
    IN [t \in BitTuples(2) |->
          IF t = <<0, 0>> THEN n - marga - margb + coseg
          ELSE IF t = <<0, 1>> THEN marga - coseg
          ELSE IF t = <<1, 0>> THEN margb - coseg
          ELSE coseg]

fast_cosegregation_frequency(smp) ==
    LET coseg == Coseg(smp)
        marga == Marginal(smp, 1)
        margb == Marginal(smp, 2)
        n == NumCols(smp)
    IN [t \in BitTuples(2) |->
          IF t = <<0, 0>> THEN n - marga - margb + coseg
          ELSE IF t = <<0, 1>> THEN margb - coseg
          ELSE IF t = <<1, 0>> THEN marga - coseg
          ELSE coseg]

cosegregation_frequency(smp) ==
    IF NumRows(smp) = 2 THEN fast_cosegregation_frequency(smp)
    ELSE general_cosegregation_frequency(smp)

----------------------------------------------------------------------------
(* get_index_combinations *)

\* range(lo, hi)
Range(lo, hi) == [lo |-> lo, hi |-> hi]

\* The loop over the regions, after the first k of them: the ranges
\* appended and the next start.  max() of an empty range raises ValueError.
RECURSIVE IndexLoop(_, _)
IndexLoop(regs, k) ==
    IF k = 0 THEN [kind |-> "ok", indexes |-> <<>>, start |-> 0]
    ELSE LET before == IndexLoop(regs, k - 1)
         IN IF before.kind # "ok" THEN before
            ELSE LET r == Range(before.start, before.start + Len(regs[k]))
                 IN IF r.hi <= r.lo
                       THEN [kind |-> "ValueError", indexes |-> <<>>, start |-> 0]
                    ELSE [kind |-> "ok",
                          indexes |-> Append(before.indexes, r),
                          start |-> (r.hi - 1) + 1]

RECURSIVE IndexLoopRestart(_, _)
IndexLoopRestart(regs, k) ==
    IF k = 0 THEN [kind |-> "ok", indexes |-> <<>>, start |-> 0]
    ELSE LET before == IndexLoopRestart(regs, k - 1)
         IN IF before.kind # "ok" THEN before
            ELSE LET r == Range(0, Len(regs[k]))
                 IN IF r.hi <= r.lo
                       THEN [kind |-> "ValueError", indexes |-> <<>>, start |-> 0]
                    ELSE [kind |-> "ok",
                          indexes |-> Append(before.indexes, r),
                          start |-> 0]

\* itertools.product(*indexes): the tuples in lexicographic order, the last
\* range varying fastest.
RECURSIVE Product(_)
Product(indexes) ==
    IF indexes = <<>> THEN << <<>> >>
    ELSE LET rest == Product(Tail(indexes))
             lo == Head(indexes).lo
             n == Head(indexes).hi - Head(indexes).lo
         IN [m \in 1..(n * Len(rest)) |->
               <<lo + ((m - 1) \div Len(rest))>> \o rest[((m - 1) % Len(rest)) + 1]]

get_index_combinations_restart(regs) ==
    IF ~(Len(regs) > 1) THEN Raise("AssertionError")
    ELSE LET loop == IndexLoopRestart(regs, Len(regs))
         IN IF loop.kind # "ok" THEN Raise(loop.kind)
            ELSE Ok(Product(loop.indexes))

get_index_combinations(regs) ==
    IF ~(Len(regs) > 1) THEN Raise("AssertionError")
    ELSE LET loop == IndexLoop(regs, Len(regs))
         IN IF loop.kind # "ok" THEN Raise(loop.kind)
            ELSE Ok(Product(loop.indexes))

----------------------------------------------------------------------------
(* get_cosegregation_freqs, map_freqs and get_matrix_from_regions *)

\* np.concatenate(regions, axis=0)
RECURSIVE Concatenate(_)
Concatenate(regs) ==
    IF regs = <<>> THEN <<>> ELSE Head(regs) \o Concatenate(Tail(regs))

\* full_data[indices, :], the rows of the 0-based row numbers in indices
TakeRows(full_data, indices) ==
    [k \in 1..Len(indices) |-> full_data[indices[k] + 1]]

\* The coordinates of an array of the given shape, 0-based.
Coordinates(shape) ==
    {c \in [1..Len(shape) -> 0..Max({0} \cup {shape[k] : k \in 1..Len(shape)})] :
        \A k \in 1..Len(shape) : c[k] < shape[k]}

\* The position of a coordinate in the row-major (C) order of an array.
RECURSIVE RavelIndex(_, _)
RavelIndex(c, shape) ==
    IF c = <<>> THEN 0
    ELSE RavelIndex(SubSeq(c, 1, Len(c) - 1), SubSeq(shape, 1, Len(shape) - 1))
           * shape[Len(shape)] + c[Len(c)]

\* np.array(flat).reshape(shape + ...): the leading axes of the reshaped
\* array, the elements of flat laid out in row-major order.
Reshape(flat, shape) ==
    [c \in Coordinates(shape) |-> flat[RavelIndex(c, shape) + 1]]

\* fqs.reshape(flat_shape): the elements of the leading axes in row-major order.
Flatten(cells, shape) ==
    [m \in 1..ProdSeq(shape) |->
        cells[CHOOSE c \in Coordinates(shape) : RavelIndex(c, shape) = m - 1]]

Lengths(regs) == [k \in 1..Len(regs) |-> Len(regs[k])]

Twos(k) == [j \in 1..k |-> 2]

\* "regions = regions * 2" for a single region
Duplicated(regs) == IF Len(regs) = 1 THEN regs \o regs ELSE regs

get_cosegregation_freqs_no_dup(regs0) ==
    LET regs == regs0
        combinations == get_index_combinations(regs)
        full_data == Concatenate(regs)
        get_frequency(indices) == cosegregation_frequency(TakeRows(full_data, indices))
    IN IF combinations.kind # "ok" THEN combinations
       ELSE LET result == [m \in 1..Len(combinations.value) |->
                              get_frequency(combinations.value[m])]
            IN Ok([shape |-> Lengths(regs) \o Twos(Len(regs)),
                   cells |-> Reshape(result, Lengths(regs))])

\* A FrequencyTensor is held as its shape and, per window coordinate, the
\* (2,)*K tensor of the trailing axes.
get_cosegregation_freqs(regs0) ==
    LET regs == Duplicated(regs0)
        combinations == get_index_combinations(regs)
        full_data == Concatenate(regs)
        get_frequency(indices) == cosegregation_frequency(TakeRows(full_data, indices))
    IN IF combinations.kind # "ok" THEN combinations
       ELSE LET result == [m \in 1..Len(combinations.value) |->
                              get_frequency(combinations.value[m])]
            IN Ok([shape |-> Lengths(regs) \o Twos(Len(regs)),
                   cells |-> Reshape(result, Lengths(regs))])

\* The method argument of get_matrix_from_regions, here the reduction of a
\* tensor to its all-detected cell (coseg).
method(t) == t[CHOOSE x \in DOMAIN t : \A k \in 1..Len(x) : x[k] = 1]

map_freqs(fqs) ==
    LET old_shape == fqs.shape
        half_point == Len(old_shape) \div 2
        leading == SubSeq(old_shape, 1, half_point)
        flat == Flatten(fqs.cells, leading)
        mapped == [m \in 1..Len(flat) |-> method(flat[m])]
    IN [shape |-> leading, cells |-> Reshape(mapped, leading)]

get_matrix_from_regions(regs) ==
    LET freqs == get_cosegregation_freqs(regs)
    IN IF freqs.kind # "ok" THEN freqs ELSE Ok(map_freqs(freqs.value))

----------------------------------------------------------------------------
(* Specification of the counters: one call on a table of K rows, N columns *)

SampleTables ==
    UNION {[1..k -> Rows(n)] : k \in 2..MaxK, n \in 0..MaxSamples}

InitCoseg ==
    /\ samples \in SampleTables
    /\ windows = <<>>
    /\ interval = <<>>
    /\ loc_string = <<>>
    /\ regions = <<>>
    /\ pc = "start"
    /\ ret = NoResult

CallCosegregationFrequency ==
    /\ pc = "start"
    /\ samples # <<>>
    /\ pc' = "cosegregation_frequency"
    /\ ret' = Ok(cosegregation_frequency(samples))
    /\ UNCHANGED <<windows, interval, loc_string, samples, regions>>

CallFastCosegregationFrequency ==
    /\ pc = "start"
    /\ samples # <<>>
    /\ NumRows(samples) = 2
    /\ pc' = "fast_cosegregation_frequency"
    /\ ret' = Ok(fast_cosegregation_frequency(samples))
    /\ UNCHANGED <<windows, interval, loc_string, samples, regions>>

NextCoseg == CallCosegregationFrequency \/ CallFastCosegregationFrequency

SpecCoseg == InitCoseg /\ [][NextCoseg]_vars

----------------------------------------------------------------------------
(* C1: for two indicator rows of equal length, the tensor of               *)
(* fast_cosegregation_frequency equals, cell for cell, the tensor the      *)
(* per-sample counting loop of cosegregation_frequency builds on them.     *)
C1_FastEqualsGeneral ==
    pc = "fast_cosegregation_frequency" =>
        /\ ret.kind = "ok"
        /\ DOMAIN ret.value = BitTuples(2)
        /\ \A t \in BitTuples(2) :
              ret.value[t] = general_cosegregation_frequency(samples)[t]

\* A fast-path call on rows whose marginals differ, with both mixed cells
\* and a co-detection.
C1_Witness ==
    /\ pc = "fast_cosegregation_frequency"
    /\ NumCols(samples) = 3
    /\ Marginal(samples, 1) = 2
    /\ Marginal(samples, 2) = 1
    /\ Coseg(samples) = 1

\* The sum of the cells of the tensor f over the coordinates S.
RECURSIVE SumOver(_, _)
SumOver(f, S) ==
    IF S = {} THEN 0
    ELSE LET x == CHOOSE y \in S : TRUE IN f[x] + SumOver(f, S \ {x})

(* C2: for K >= 2 rows of N indicator values, every cell of the tensor     *)
(* returned by cosegregation_frequency is a non-negative integer and the   *)
(* 2^K cells sum to N.                                                     *)
C2_CellsSumToN ==
    pc = "cosegregation_frequency" =>
        /\ ret.kind = "ok"
        /\ DOMAIN ret.value = BitTuples(NumRows(samples))
        /\ \A t \in BitTuples(NumRows(samples)) : ret.value[t] \in Nat
        /\ SumOver(ret.value, BitTuples(NumRows(samples))) = NumCols(samples)

\* A call through the general loop (K = 3) with samples in different cells.
C2_Witness ==
    /\ pc = "cosegregation_frequency"
    /\ NumRows(samples) = 3
    /\ NumCols(samples) = 3
    /\ ret.value[<<1, 0, 1>>] = 2
    /\ ret.value[<<0, 1, 1>>] = 1

----------------------------------------------------------------------------
(* The window index and index_from_interval *)

\* Chromosome names are strings, modelled as sequences of characters.
MatrixChroms == {<<"c", "1">>, <<"c", "2">>}

QueryChroms == MatrixChroms \cup {<<"c", "X">>}

\* np.Inf: compares greater than every coordinate.
Inf == MaxPos + 1

Window(c, s, e) == [chrom |-> c, start |-> s, stop |-> e]

\* segmentation_data.index.levels[0] of a matrix as loaded: the chromosomes
\* its rows carry.
Levels(w) == {w[i].chrom : i \in 1..Len(w)}

\* window_in_region, per row (rows are numbered from 1 here, from 0 in ret)
WindowInRegion(w, i, chrom, start, stop) ==
    /\ w[i].stop > start
    /\ w[i].start < stop
    /\ w[i].chrom = chrom

\* np.nonzero(window_in_region)[0], as 0-based row numbers
CoveredWindows(w, chrom, start, stop) ==
    {i - 1 : i \in {j \in 1..Len(w) : WindowInRegion(w, j, chrom, start, stop)}}

index_from_interval_no_chrom(w, intv) ==
    LET chrom == intv[1]
        start == intv[2]
        stop == intv[3]
        covered == {i - 1 : i \in {j \in 1..Len(w) :
                                     w[j].stop > start /\ w[j].start < stop}}
    IN IF ~(start < stop) THEN Raise("ValueError")
       ELSE IF covered = {} THEN
               IF chrom \notin Levels(w) THEN RaiseWith("InvalidChromError", chrom)
               ELSE Raise("IndexError")
       ELSE Ok(<<Min(covered), Max(covered) + 1>>)

index_from_interval_chrom_first(w, intv) ==
    LET chrom == intv[1]
        start == intv[2]
        stop == intv[3]
        covered == CoveredWindows(w, chrom, start, stop)
    IN IF chrom \notin Levels(w) THEN RaiseWith("InvalidChromError", chrom)
       ELSE IF ~(start < stop) THEN Raise("ValueError")
       ELSE IF covered = {} THEN Raise("IndexError")
       ELSE Ok(<<Min(covered), Max(covered) + 1>>)

index_from_interval_any_empty(w, intv) ==
    LET chrom == intv[1]
        start == intv[2]
        stop == intv[3]
        covered == CoveredWindows(w, chrom, start, stop)
    IN IF ~(start < stop) THEN Raise("ValueError")
       ELSE IF covered = {} THEN RaiseWith("InvalidChromError", chrom)
       ELSE Ok(<<Min(covered), Max(covered) + 1>>)

\* covered_windows[0] on an empty array raises IndexError.
index_from_interval(w, intv) ==
    LET chrom == intv[1]
        start == intv[2]
        stop == intv[3]
        covered == CoveredWindows(w, chrom, start, stop)
    IN IF ~(start < stop) THEN Raise("ValueError")
       ELSE IF covered = {} THEN
               IF chrom \notin Levels(w) THEN RaiseWith("InvalidChromError", chrom)
               ELSE Raise("IndexError")
       ELSE Ok(<<Min(covered), Max(covered) + 1>>)

----------------------------------------------------------------------------
(* parse_location_string and index_from_location_string *)

Digit == <<"0", "1", "2", "3", "4", "5", "6", "7", "8", "9">>

IsDigit(ch) == \E d \in 1..10 : Digit[d] = ch

DigitValue(ch) == (CHOOSE d \in 1..10 : Digit[d] = ch) - 1

\* str.split(sep): the fields between the separators, at least one field.
RECURSIVE Split(_, _)
Split(str, sep) ==
    IF \A i \in 1..Len(str) : str[i] # sep THEN <<str>>
    ELSE LET p == Min({i \in 1..Len(str) : str[i] = sep})
         IN <<SubSeq(str, 1, p - 1)>> \o Split(SubSeq(str, p + 1, Len(str)), sep)

\* int(field) accepts a non-empty run of decimal digits (the strings of the
\* model hold no sign and no blank).
IsInt(field) == field # <<>> /\ \A i \in 1..Len(field) : IsDigit(field[i])

RECURSIVE ParseInt(_)
ParseInt(field) ==
    IF field = <<>> THEN 0
    ELSE 10 * ParseInt(SubSeq(field, 1, Len(field) - 1))
         + DigitValue(field[Len(field)])

\* '{0}'.format(n) for n >= 0
RECURSIVE FormatInt(_)
FormatInt(n) ==
    IF n < 10 THEN <<Digit[n + 1]>>
    ELSE FormatInt(n \div 10) \o <<Digit[(n % 10) + 1]>>

\* The location string "chrom:start-stop".
LocString(c, s, e) == c \o <<":">> \o FormatInt(s) \o <<"-">> \o FormatInt(e)

parse_location_string_closed(str) ==
    LET chrom_fields == Split(str, ":")
        chrom == chrom_fields[1]
    IN IF Len(chrom_fields) = 1 THEN Ok(<<chrom, 0, Inf>>)
       ELSE LET pos_fields == Split(chrom_fields[2], "-")
            IN IF \E i \in 1..Len(pos_fields) : ~IsInt(pos_fields[i])
                  THEN Raise("ValueError")
               ELSE IF Len(pos_fields) # 2 THEN Raise("ValueError")
               ELSE Ok(<<chrom, ParseInt(pos_fields[1]),
                         ParseInt(pos_fields[2]) + 1>>)

\* "start, stop = map(int, pos_fields)" raises ValueError when a field is
\* no integer and when there are not exactly two fields.
parse_location_string(str) ==
    LET chrom_fields == Split(str, ":")
        chrom == chrom_fields[1]
    IN IF Len(chrom_fields) = 1 THEN Ok(<<chrom, 0, Inf>>)
       ELSE LET pos_fields == Split(chrom_fields[2], "-")
            IN IF \E i \in 1..Len(pos_fields) : ~IsInt(pos_fields[i])
                  THEN Raise("ValueError")
               ELSE IF Len(pos_fields) # 2 THEN Raise("ValueError")
               ELSE Ok(<<chrom, ParseInt(pos_fields[1]), ParseInt(pos_fields[2])>>)

index_from_location_string(w, str) ==
    LET parsed == parse_location_string(str)
    IN IF parsed.kind # "ok" THEN parsed
       ELSE index_from_interval(w, parsed.value)

----------------------------------------------------------------------------
(* Specification of the locator: one lookup in a window index *)

AllWindows ==
    {Window(c, s, e) : c \in MatrixChroms,
                       s \in 0..MaxPos, e \in 0..MaxPos} 

\* The invariant of a segmentation matrix: window start < stop, the rows of
\* a chromosome are adjacent, and within a chromosome the windows ascend
\* without overlapping (they tile or leave gaps).
IsWindowIndex(w) ==
    /\ \A i \in 1..Len(w) : w[i].start < w[i].stop
    /\ \A i, j \in 1..Len(w) :
          (i < j /\ w[i].chrom = w[j].chrom) =>
              /\ \A k \in i..j : w[k].chrom = w[i].chrom
              /\ w[i].stop <= w[j].start

\* The window indexes of n rows, built a row at a time.
RECURSIVE WindowIndexesOfLen(_)
WindowIndexesOfLen(n) ==
    IF n = 0 THEN {<<>>}
    ELSE {w \in {Append(v, x) : v \in WindowIndexesOfLen(n - 1), x \in AllWindows} :
            IsWindowIndex(w)}

WindowIndexes == UNION {WindowIndexesOfLen(n) : n \in 0..MaxWin}

Intervals == QueryChroms \X (0..MaxPos) \X (0..MaxPos)

\* The strings a lookup is given: the explicit range of an interval, the
\* bare chromosome, and some strings that are no location.
LocStrings ==
    UNION {{ LocString(intv[1], intv[2], intv[3]),
             intv[1],
             intv[1] \o <<":">> \o FormatInt(intv[2]),
             intv[1] \o <<":", "-">> \o FormatInt(intv[3]),
             LocString(intv[1], intv[2], intv[3]) \o <<":", "0">>,
             LocString(intv[1], intv[2], intv[3]) \o <<"-">> \o FormatInt(intv[3]) }
           : intv \in Intervals}

\* A lookup is made with an interval or with a location string.
InitLocate ==
    /\ windows \in WindowIndexes
    /\ \/ interval \in Intervals /\ loc_string = <<>>
       \/ interval = <<>> /\ loc_string \in LocStrings
    /\ samples = <<>>
    /\ regions = <<>>
    /\ pc = "start"
    /\ ret = NoResult

CallIndexFromInterval ==
    /\ pc = "start"
    /\ interval # <<>>
    /\ pc' = "index_from_interval"
    /\ ret' = index_from_interval(windows, interval)
    /\ UNCHANGED <<windows, interval, loc_string, samples, regions>>

CallIndexFromLocationString ==
    /\ pc = "start"
    /\ loc_string # <<>>
    /\ pc' = "index_from_location_string"
    /\ ret' = index_from_location_string(windows, loc_string)
    /\ UNCHANGED <<windows, interval, loc_string, samples, regions>>

NextLocate == CallIndexFromInterval \/ CallIndexFromLocationString

SpecLocate == InitLocate /\ [][NextLocate]_vars

----------------------------------------------------------------------------
(* Claims about the locator *)

\* The rows (numbered from 0) on chromosome c that hold a position of lo..hi.
RowsHolding(c, lo, hi) ==
    {i \in 0..(Len(windows) - 1) :
        /\ windows[i + 1].chrom = c
        /\ \E p \in lo..hi : windows[i + 1].start <= p /\ p < windows[i + 1].stop}

\* The rows (numbered from 0) on chromosome c.
RowsOn(c) == {i \in 0..(Len(windows) - 1) : windows[i + 1].chrom = c}

TilingIndex ==
    << Window(<<"c", "1">>, 0, 1), Window(<<"c", "1">>, 1, 2),
       Window(<<"c", "1">>, 2, 3) >>

(* C3: on a matrix grouped by chromosome and sorted within a chromosome,   *)
(* for a query with start < stop that overlaps a window,                   *)
(* index_from_interval returns (first_overlap, last_overlap + 1) and the   *)
(* rows of that half-open range are exactly the rows of the chromosome     *)
(* with window stop > start and window start < stop.                       *)
C3_RangeIsExactlyTheOverlap ==
    (/\ pc = "index_from_interval"
     /\ IsWindowIndex(windows)
     /\ interval[2] < interval[3]
     /\ RowsHolding(interval[1], interval[2], interval[3] - 1) # {}) =>
        LET over == {i \in RowsOn(interval[1]) :
                        /\ windows[i + 1].stop > interval[2]
                        /\ windows[i + 1].start < interval[3]}
        IN /\ ret.kind = "ok"
           /\ ret.value = <<Min(over), Max(over) + 1>>
           /\ {i \in 0..(Len(windows) - 1) :
                  ret.value[1] <= i /\ i < ret.value[2]} = over

\* Three tiling windows after a window of another chromosome; the query
\* lies in the middle window.
C3_Witness ==
    /\ pc = "index_from_interval"
    /\ windows = <<Window(<<"c", "2">>, 0, 3)>> \o SubSeq(TilingIndex, 1, 2)
    /\ interval = <<<<"c", "1">>, 1, 2>>
    /\ ret = Ok(<<2, 3>>)

(* C4: when start < stop and the chromosome is in the index but no window  *)
(* of it overlaps [start, stop), index_from_interval fails with an         *)
(* EmptyRegionResult error, not by indexing the empty covered_windows.     *)
C4_EmptyRegionResult ==
    (/\ pc = "index_from_interval"
     /\ interval[2] < interval[3]
     /\ RowsOn(interval[1]) # {}
     /\ RowsHolding(interval[1], interval[2], interval[3] - 1) = {}) =>
        ret.kind = "EmptyRegionResult"

(* C5: when start < stop, index_from_interval raises InvalidChromError,    *)
(* carrying the chromosome name, if no window of the matrix is on the      *)
(* queried chromosome, and never raises it when some window is.            *)
C5_InvalidChromIffAbsent ==
    pc = "index_from_interval" =>
        /\ (interval[2] < interval[3] /\ RowsOn(interval[1]) = {}) =>
              ret = RaiseWith("InvalidChromError", interval[1])
        /\ RowsOn(interval[1]) # {} => ret.kind # "InvalidChromError"

\* A valid query of an absent chromosome on a matrix that has rows.
C5_Witness ==
    /\ pc = "index_from_interval"
    /\ windows = TilingIndex
    /\ interval = <<<<"c", "X">>, 0, 2>>
    /\ ret.kind = "InvalidChromError"

(* C6: the string "chrom:start-stop" denotes the closed range start..stop: *)
(* index_from_location_string selects every window holding a position      *)
(* from start to stop inclusive (stated for start < stop).                 *)
C6_ClosedRange ==
    pc = "index_from_location_string" =>
        \A c \in QueryChroms, s \in 0..MaxPos, e \in 0..MaxPos :
            (/\ loc_string = LocString(c, s, e)
             /\ s < e
             /\ RowsHolding(c, s, e) # {}) =>
                ret = Ok(<<Min(RowsHolding(c, s, e)), Max(RowsHolding(c, s, e)) + 1>>)

(* C6 amended: the string "chrom:start-stop" is taken unchanged as the     *)
(* half-open interval [start, stop): when start < stop,                    *)
(* index_from_location_string selects the windows holding a position from  *)
(* start to stop - 1, and a window that begins at stop is not selected.    *)
C6_HalfOpenRange ==
    pc = "index_from_location_string" =>
        \A c \in QueryChroms, s \in 0..MaxPos, e \in 0..MaxPos :
            (/\ loc_string = LocString(c, s, e)
             /\ s < e
             /\ RowsHolding(c, s, e - 1) # {}) =>
                ret = Ok(<<Min(RowsHolding(c, s, e - 1)),
                           Max(RowsHolding(c, s, e - 1)) + 1>>)

\* "c1:0-1" on the windows (c1,0,1), (c1,1,2) selects the first window only.
C6_Witness ==
    /\ pc = "index_from_location_string"
    /\ windows = SubSeq(TilingIndex, 1, 2)
    /\ loc_string = LocString(<<"c", "1">>, 0, 1)
    /\ ret = Ok(<<0, 1>>)

(* C9: index_from_interval raises the invalid-interval error (ValueError)  *)
(* for every query with start >= stop, whatever the chromosome and the     *)
(* matrix, also when the chromosome is absent.                             *)
C9_InvalidInterval ==
    (pc = "index_from_interval" /\ interval[2] >= interval[3]) =>
        ret.kind = "ValueError"

\* start = stop on a chromosome that the matrix does not have.
C9_Witness ==
    /\ pc = "index_from_interval"
    /\ windows = TilingIndex
    /\ interval = <<<<"c", "X">>, 2, 2>>
    /\ ret.kind = "ValueError"

----------------------------------------------------------------------------
(* Specification of the tensor assembly: one call on K regions *)

LengthTuples ==
    {l \in UNION {[1..k -> 0..MaxLen] : k \in 1..MaxK} : SumSeq(l) <= MaxRows}

\* The rows of flat cut into regions of the given lengths.
RECURSIVE CutRows(_, _)
CutRows(flat, lens) ==
    IF lens = <<>> THEN <<>>
    ELSE <<SubSeq(flat, 1, Head(lens))>>
           \o CutRows(SubSeq(flat, Head(lens) + 1, Len(flat)), Tail(lens))

\* The arguments are K regions over the same n sample columns.
InitFreqs ==
    /\ \E lens \in LengthTuples, n \in 0..MaxCols :
          \E flat \in [1..SumSeq(lens) -> Rows(n)] :
              regions = CutRows(flat, lens)
    /\ windows = <<>>
    /\ interval = <<>>
    /\ loc_string = <<>>
    /\ samples = <<>>
    /\ pc = "start"
    /\ ret = NoResult

CallGetIndexCombinations ==
    /\ pc = "start"
    /\ regions # <<>>
    /\ pc' = "get_index_combinations"
    /\ ret' = get_index_combinations(regions)
    /\ UNCHANGED <<windows, interval, loc_string, samples, regions>>

CallGetCosegregationFreqs ==
    /\ pc = "start"
    /\ regions # <<>>
    /\ pc' = "get_cosegregation_freqs"
    /\ ret' = get_cosegregation_freqs(regions)
    /\ UNCHANGED <<windows, interval, loc_string, samples, regions>>

CallGetMatrixFromRegions ==
    /\ pc = "start"
    /\ regions # <<>>
    /\ pc' = "get_matrix_from_regions"
    /\ ret' = get_matrix_from_regions(regions)
    /\ UNCHANGED <<windows, interval, loc_string, samples, regions>>

NextFreqs ==
    \/ CallGetIndexCombinations
    \/ CallGetCosegregationFreqs
    \/ CallGetMatrixFromRegions

SpecFreqs == InitFreqs /\ [][NextFreqs]_vars

----------------------------------------------------------------------------
(* Claims about the tensor assembly *)

\* The contingency tensor of K rows: per binary coordinate, the number of
\* samples whose detection pattern across the rows is that coordinate.
ContingencyOf(rows) ==
    [t \in BitTuples(Len(rows)) |->
        Cardinality({i \in 1..Len(rows[1]) :
                        \A k \in 1..Len(rows) : rows[k][i] = t[k]})]

\* The rows region_1[c_1], ..., region_K[c_K] of a window coordinate c.
RowsAt(regs, c) == [k \in 1..Len(regs) |-> regs[k][c[k] + 1]]

NoEmptyRegion == \A k \in 1..Len(regions) : Len(regions[k]) >= 1

\* The result is the FrequencyTensor of the regions regs.
IsFrequencyTensorOf(regs) ==
    /\ ret.kind = "ok"
    /\ ret.value.shape = Lengths(regs) \o Twos(Len(regs))
    /\ DOMAIN ret.value.cells = Coordinates(Lengths(regs))
    /\ \A c \in Coordinates(Lengths(regs)) :
          ret.value.cells[c] = ContingencyOf(RowsAt(regs, c))

\* The result is the InteractionMatrix of the regions regs.
IsInteractionMatrixOf(regs) ==
    /\ ret.kind = "ok"
    /\ ret.value.shape = Lengths(regs)
    /\ DOMAIN ret.value.cells = Coordinates(Lengths(regs))
    /\ \A c \in Coordinates(Lengths(regs)) :
          ret.value.cells[c] = method(ContingencyOf(RowsAt(regs, c)))

(* C7: for K >= 1 regions of lengths L_1..L_K, get_cosegregation_freqs     *)
(* returns a tensor of shape (L_1,...,L_K,2,...,2) whose entry at          *)
(* (i_1,...,i_K) is the contingency tensor of the rows region_k[i_k], and  *)
(* get_matrix_from_regions a matrix of shape (L_1,...,L_K) whose entries   *)
(* are the reduction of those tensors (stated for regions that have rows). *)
C7_ShapeFollowsRegions ==
    NoEmptyRegion =>
        /\ pc = "get_cosegregation_freqs" => IsFrequencyTensorOf(regions)
        /\ pc = "get_matrix_from_regions" => IsInteractionMatrixOf(regions)

(* C7 amended: the statement holds for K >= 2 regions with L_k >= 1; a     *)
(* single region R gives the result of the two regions (R, R), of shape    *)
(* (L_1, L_1, 2, 2) and (L_1, L_1); and with a region of no rows both      *)
(* calls raise ValueError.                                                 *)
C7_ShapeFollowsDuplicatedRegions ==
    /\ pc = "get_cosegregation_freqs" =>
          IF NoEmptyRegion THEN IsFrequencyTensorOf(Duplicated(regions))
          ELSE ret.kind = "ValueError"
    /\ pc = "get_matrix_from_regions" =>
          IF NoEmptyRegion THEN IsInteractionMatrixOf(Duplicated(regions))
          ELSE ret.kind = "ValueError"

\* Two regions of 1 and 2 rows: shape (1,2,2,2), and the entry of the first
\* region's row with the second region's second row counts a sample that
\* has the first and lacks the second.
C7_Witness ==
    /\ pc = "get_cosegregation_freqs"
    /\ regions = << << <<1>> >>, << <<1>>, <<0>> >> >>
    /\ ret.kind = "ok"
    /\ ret.value.shape = <<1, 2, 2, 2>>
    /\ ret.value.cells[<<0, 1>>][<<1, 0>>] = 1
    /\ ret.value.cells[<<0, 0>>][<<1, 1>>] = 1

(* C8: get_cosegregation_freqs of a single region R gives what it gives    *)
(* for the two regions (R, R); when R has rows the result has shape        *)
(* (len(R), len(R), 2, 2) and entry (i, j) is entry (j, i) with its two    *)
(* binary axes swapped.                                                    *)
C8_SingleRegionIsSelfComparison ==
    (pc = "get_cosegregation_freqs" /\ Len(regions) = 1) =>
        LET R == regions[1]
            L == Len(R)
        IN /\ ret = get_cosegregation_freqs(<<R, R>>)
           /\ L >= 1 =>
                /\ ret.kind = "ok"
                /\ ret.value.shape = <<L, L, 2, 2>>
                /\ \A i, j \in 0..(L - 1) : \A a, b \in {0, 1} :
                      ret.value.cells[<<i, j>>][<<a, b>>]
                          = ret.value.cells[<<j, i>>][<<b, a>>]

\* A single region of two different rows: the entries (0,1) and (1,0)
\* differ, each the other with its binary axes swapped.
C8_Witness ==
    /\ pc = "get_cosegregation_freqs"
    /\ regions = << << <<1>>, <<0>> >> >>
    /\ ret.kind = "ok"
    /\ ret.value.shape = <<2, 2, 2, 2>>
    /\ ret.value.cells[<<0, 1>>][<<1, 0>>] = 1
    /\ ret.value.cells[<<1, 0>>][<<0, 1>>] = 1

\* The tuple a comes before the tuple b in lexicographic order.
LexLess(a, b) ==
    \E k \in 1..Len(a) : a[k] < b[k] /\ \A j \in 1..(k - 1) : a[j] = b[j]

\* L_1 + ... + L_(k-1)
Offset(regs, k) == SumSeq(SubSeq(Lengths(regs), 1, k - 1))

\* The combinations are the Cartesian product of the regions' global row
\* ranges, each tuple once, in lexicographic order.
IsProductOfRegions ==
    /\ ret.kind = "ok"
    /\ Len(ret.value) = ProdSeq(Lengths(regions))
    /\ \A m \in 1..Len(ret.value) :
          /\ Len(ret.value[m]) = Len(regions)
          /\ \A k \in 1..Len(regions) :
                /\ ret.value[m][k] >= Offset(regions, k)
                /\ ret.value[m][k] < Offset(regions, k) + Len(regions[k])
    /\ \A m, n \in 1..Len(ret.value) :
          m < n => LexLess(ret.value[m], ret.value[n])

(* C10: for K >= 2 regions of lengths L_1..L_K, get_index_combinations     *)
(* yields the L_1*...*L_K tuples of global row indices, component k in     *)
(* [L_1+...+L_(k-1), L_1+...+L_k), each once, in lexicographic order; with *)
(* a region of length 0 it yields no combination.                          *)
C10_ProductOfRegions ==
    (pc = "get_index_combinations" /\ Len(regions) >= 2) => IsProductOfRegions

====
